---- MODULE Spec2Model ----
(***************************************************************************)
(* Model of the wolfSSH logging facade, src/src/log.c.                     *)
(*                                                                         *)
(* The module state is the four file-scope variables logFunction,          *)
(* logFunctionEx, logLevel and logEnable.  The preprocessor selectors      *)
(* that decide which of the alternative definitions are compiled are       *)
(* fixed by the initial state and never change.  Every public entry point  *)
(* is one action.  The observation variables op, invoked, out and ret      *)
(* record what the last call was, which sinks it invoked with which        *)
(* arguments, what the built-in sinks wrote to stdout and what the call    *)
(* returned.  lastCb, lastCbEx and lastLevel are history variables: the    *)
(* last non-null argument of each install call and the last argument of    *)
(* the level setter.                                                       *)
(***************************************************************************)
EXTENDS Integers, Sequences, FiniteSets, TLC

\* ---------------------------------------------------------------- bounds
\* largest message buffer width WOLFSSH_DEFAULT_LOG_WIDTH explored
MaxWidth == 3
\* levels are the integers 0..MaxLevel (C enum values compared numerically)
MaxLevel == 3
\* domains are the integers 0..MaxDomain
MaxDomain == 1

Widths == 1..MaxWidth
Levels == 0..MaxLevel
Domains == 0..MaxDomain
\* longest rendered text: one more than any buffer can hold
MaxRendered == MaxWidth + 1
\* the text a format string and its arguments render to; the character at
\* position i is i, so that a prefix differs from every other subsequence
Rendered == {[i \in 1..n |-> i] : n \in 0..MaxRendered}

\* ------------------------------------------------------------- constants
NULL == "NULL"
\* history value: no call yet
NONE == "NONE"
\* the string terminator '\0'
NUL == 0
\* marks an invocation of the plain sink shape, which has no domain
NoDomain == -1
\* the built-in sinks
DefaultLoggingCb == "DefaultLoggingCb"
DefaultLoggingCbEx == "DefaultLoggingCbEx"
\* sinks a caller may install
UserCb == {"R1", "R2"}
UserCbEx == {"X1", "X2"}
\* enum value WS_LOG_DEFAULT of wolfssh/log.h
WS_LOG_DEFAULT == 1

VARIABLES build, logFunction, logFunctionEx, logLevel, logEnable,
          op, invoked, out, ret, lastCb, lastCbEx, lastLevel

config == <<logFunction, logFunctionEx, logLevel, logEnable>>
history == <<lastCb, lastCbEx, lastLevel>>
vars == <<build, logFunction, logFunctionEx, logLevel, logEnable,
          op, invoked, out, ret, lastCb, lastCbEx, lastLevel>>

\* ------------------------------------------------------ build selectors
\* build.debug  : DEBUG_WOLFSSH is defined
\* build.nocbL  : WOLFSSL_NO_DEFAULT_LOGGING_CB is defined (tested at the
\*                declaration of logFunction)
\* build.nocbH  : WOLFSSH_NO_DEFAULT_LOGGING_CB is defined (tested around
\*                the definitions of the built-in sinks)
\* build.width  : WOLFSSH_DEFAULT_LOG_WIDTH
DEBUG_WOLFSSH == build.debug
WOLFSSL_NO_DEFAULT_LOGGING_CB == build.nocbL
WOLFSSH_NO_DEFAULT_LOGGING_CB == build.nocbH
WOLFSSH_DEFAULT_LOG_WIDTH == build.width

\* A translation unit links only if every static function it references is
\* defined.  DefaultLoggingCb is declared static and referenced when
\* WOLFSSL_NO_DEFAULT_LOGGING_CB is undefined; in a debug build its
\* definition is compiled only when WOLFSSH_NO_DEFAULT_LOGGING_CB is
\* undefined, in a non-debug build always.
Links(b) == ~(b.debug /\ ~b.nocbL /\ b.nocbH)

Builds == {b \in [debug : BOOLEAN, nocbL : BOOLEAN, nocbH : BOOLEAN,
                  width : Widths] : Links(b)}

\* initial value of logFunction
InitLogFunction(b) == IF ~b.nocbL THEN DefaultLoggingCb ELSE NULL

\* initial value of logFunctionEx
InitLogFunctionEx(b) == IF ~b.nocbH THEN DefaultLoggingCbEx ELSE NULL

\* ------------------------------------------------------------- helpers
Min(a, b) == IF a < b THEN a ELSE b

Vsnprintf_offByOne(size, text) == SubSeq(text, 1, Min(Len(text), size)) \o <<NUL>>

\* WVSNPRINTF(msgStr, sizeof(msgStr), fmt, args): the bytes written to the
\* buffer, at most size-1 characters of the rendered text and a terminator
Vsnprintf(size, text) == SubSeq(text, 1, Min(Len(text), size - 1)) \o <<NUL>>

\* the C string a sink reads from a buffer: the bytes before the first NUL
RECURSIVE CStr(_)
CStr(buf) == IF buf = <<>> \/ Head(buf) = NUL THEN <<>>
             ELSE <<Head(buf)>> \o CStr(Tail(buf))

Filtered_inclusive(level) == level <= logLevel
Filtered_lenient(level) == level < logLevel - 1
Filtered_default(level) == level < WS_LOG_DEFAULT
Filtered_enable(level) == level < logLevel \/ logEnable = 0

\* if (level < logLevel) return;
Filtered(level) == level < logLevel

\* one call fn(level, msgStr) or fn(level, domain, msgStr)
Invocation(fn, level, domain, buf) == [sink |-> fn, level |-> level, domain |-> domain, buf |-> buf]

CallSink_fallback(fn, dflt, level, domain, buf) == <<Invocation(IF fn # NULL THEN fn ELSE dflt, level, domain, buf)>>

\* if (logFunction) logFunction(level, msgStr);  dflt is not used
CallSink(fn, dflt, level, domain, buf) == IF fn # NULL THEN <<Invocation(fn, level, domain, buf)>> ELSE <<>>

\* what the built-in sinks write to stdout for the invocations made: one
\* line per invocation, with its level label, its domain label if any and
\* the message (the timestamp prefix is left out)
Stdout(invs) == SelectSeq(invs, LAMBDA i : i.sink \in {DefaultLoggingCb, DefaultLoggingCbEx})

Install_noGuard(cur, logF) == logF

\* if (logF) logFunction = logF;
Install(cur, logF) == IF logF # NULL THEN logF ELSE cur

LogCalls_always(level, text) == IF Filtered(level) THEN <<>> ELSE CallSink(logFunction, DefaultLoggingCb, level, NoDomain, Vsnprintf(WOLFSSH_DEFAULT_LOG_WIDTH, text))

\* the sink invocations of wolfSSH_Log(level, fmt, ...)
LogCalls(level, text) == IF ~DEBUG_WOLFSSH THEN <<>> ELSE IF Filtered(level) THEN <<>> ELSE CallSink(logFunction, DefaultLoggingCb, level, NoDomain, Vsnprintf(WOLFSSH_DEFAULT_LOG_WIDTH, text))

LogExCalls_plain(level, domain, text) == IF ~DEBUG_WOLFSSH THEN <<>> ELSE IF Filtered(level) THEN <<>> ELSE CallSink(logFunction, DefaultLoggingCb, level, domain, Vsnprintf(WOLFSSH_DEFAULT_LOG_WIDTH, text))

\* the sink invocations of wolfSSH_Log_ex(level, domain, fmt, ...)
LogExCalls(level, domain, text) == IF ~DEBUG_WOLFSSH THEN <<>> ELSE IF Filtered(level) THEN <<>> ELSE CallSink(logFunctionEx, DefaultLoggingCbEx, level, domain, Vsnprintf(WOLFSSH_DEFAULT_LOG_WIDTH, text))

\* the record of a call
Op(name, level, domain, text, fn) == [name |-> name, level |-> level, domain |-> domain, text |-> text, fn |-> fn]

\* ---------------------------------------------------------------- Init
Init ==
    /\ build \in Builds
    /\ logFunction = InitLogFunction(build)
    /\ logFunctionEx = InitLogFunctionEx(build)
    /\ logLevel = WS_LOG_DEFAULT
    /\ logEnable = 0
    /\ op = Op("init", 0, NoDomain, <<>>, NULL)
    /\ invoked = <<>>
    /\ out = <<>>
    /\ ret = 0
    /\ lastCb = NONE
    /\ lastCbEx = NONE
    /\ lastLevel = -1

\* ------------------------------------------------------------- actions
wolfSSH_Debugging_ON ==
    /\ logEnable' = IF DEBUG_WOLFSSH THEN 1 ELSE logEnable
    /\ op' = Op("Debugging_ON", 0, NoDomain, <<>>, NULL)
    /\ invoked' = <<>> /\ out' = <<>> /\ ret' = 0
    /\ UNCHANGED <<build, logFunction, logFunctionEx, logLevel, history>>

wolfSSH_Debugging_OFF ==
    /\ logEnable' = IF DEBUG_WOLFSSH THEN 0 ELSE logEnable
    /\ op' = Op("Debugging_OFF", 0, NoDomain, <<>>, NULL)
    /\ invoked' = <<>> /\ out' = <<>> /\ ret' = 0
    /\ UNCHANGED <<build, logFunction, logFunctionEx, logLevel, history>>

wolfSSH_SetLoggingCb ==
    \E logF \in UserCb \cup {NULL} :
        /\ logFunction' = Install(logFunction, logF)
        /\ lastCb' = IF logF # NULL THEN logF ELSE lastCb
        /\ op' = Op("SetLoggingCb", 0, NoDomain, <<>>, logF)
        /\ invoked' = <<>> /\ out' = <<>> /\ ret' = 0
        /\ UNCHANGED <<build, logFunctionEx, logLevel, logEnable, lastCbEx, lastLevel>>

wolfSSH_SetLoggingCbEx ==
    \E logF \in UserCbEx \cup {NULL} :
        /\ logFunctionEx' = IF logF # NULL THEN logF ELSE logFunctionEx
        /\ lastCbEx' = IF logF # NULL THEN logF ELSE lastCbEx
        /\ op' = Op("SetLoggingCbEx", 0, NoDomain, <<>>, logF)
        /\ invoked' = <<>> /\ out' = <<>> /\ ret' = 0
        /\ UNCHANGED <<build, logFunction, logLevel, logEnable, lastCb, lastLevel>>

wolfSSH_SetLogLevel ==
    \E level \in Levels :
        /\ logLevel' = IF DEBUG_WOLFSSH THEN level ELSE logLevel
        /\ lastLevel' = level
        /\ op' = Op("SetLogLevel", level, NoDomain, <<>>, NULL)
        /\ invoked' = <<>> /\ out' = <<>> /\ ret' = 0
        /\ UNCHANGED <<build, logFunction, logFunctionEx, logEnable, lastCb, lastCbEx>>

wolfSSH_LogEnabled ==
    /\ ret' = IF DEBUG_WOLFSSH THEN logEnable ELSE 0
    /\ op' = Op("LogEnabled", 0, NoDomain, <<>>, NULL)
    /\ invoked' = <<>> /\ out' = <<>>
    /\ UNCHANGED <<build, config, history>>

wolfSSH_Log ==
    \E level \in Levels, text \in Rendered :
        /\ invoked' = LogCalls(level, text)
        /\ out' = Stdout(invoked')
        /\ op' = Op("Log", level, NoDomain, text, NULL)
        /\ ret' = 0
        /\ UNCHANGED <<build, config, history>>

wolfSSH_Log_ex ==
    \E level \in Levels, domain \in Domains, text \in Rendered :
        /\ invoked' = LogExCalls(level, domain, text)
        /\ out' = Stdout(invoked')
        /\ op' = Op("Log_ex", level, domain, text, NULL)
        /\ ret' = 0
        /\ UNCHANGED <<build, config, history>>

Next ==
    \/ wolfSSH_Debugging_ON
    \/ wolfSSH_Debugging_OFF
    \/ wolfSSH_SetLoggingCb
    \/ wolfSSH_SetLoggingCbEx
    \/ wolfSSH_SetLogLevel
    \/ wolfSSH_LogEnabled
    \/ wolfSSH_Log
    \/ wolfSSH_Log_ex

Spec == Init /\ [][Next]_vars

TypeOK ==
    /\ build \in Builds
    /\ logFunction \in UserCb \cup {NULL, DefaultLoggingCb}
    /\ logFunctionEx \in UserCbEx \cup {NULL, DefaultLoggingCbEx}
    /\ logLevel \in Levels
    /\ logEnable \in {0, 1}
    /\ Len(invoked) <= 1

\* ---------------------------------------------------------- properties
IsLog == op.name = "Log"
IsLogEx == op.name = "Log_ex"
IsLogCall == IsLog \/ IsLogEx
\* the sink the last call had to use
SinkOf == IF IsLog THEN logFunction ELSE logFunctionEx
\* the last non-null argument of the install calls, else the initial sink
ExpectedCb == IF lastCb = NONE THEN InitLogFunction(build) ELSE lastCb
ExpectedCbEx == IF lastCbEx = NONE THEN InitLogFunctionEx(build) ELSE lastCbEx
\* the argument of the last level setter call, else the default
ExpectedLevel == IF lastLevel = -1 THEN WS_LOG_DEFAULT ELSE lastLevel

\* C1: in a debug build a log or logEx call whose level is below minLevel
\* invokes no sink, plain or extended, and writes nothing.
C1_FilterMonotonicity ==
    (DEBUG_WOLFSSH /\ IsLogCall /\ op.level < logLevel)
        => (invoked = <<>> /\ out = <<>>)

C1_Witness ==
    /\ DEBUG_WOLFSSH /\ IsLogEx /\ op.level < logLevel
    /\ logFunction # NULL /\ logFunctionEx # NULL
    /\ op.level = logLevel - 1

\* C2: in a debug build with a non-null sink installed, a log call whose
\* level equals minLevel invokes the plain sink exactly once with that
\* level, and a logEx call the extended sink exactly once with that level.
C2_FilterBoundary ==
    (DEBUG_WOLFSSH /\ IsLogCall /\ SinkOf # NULL /\ op.level = logLevel)
        => /\ Len(invoked) = 1
           /\ invoked[1].sink = SinkOf
           /\ invoked[1].level = op.level

C2_Witness ==
    /\ DEBUG_WOLFSSH /\ IsLog /\ logFunction \in UserCb
    /\ op.level = logLevel /\ lastLevel = logLevel

\* C3: the installed plain sink is the last non-null argument of setSink,
\* or the initial sink if there was none (so setSink(null) changes
\* nothing), and a log call that passes the filter dispatches to it.
C3_SinkInstallNullGuard ==
    /\ logFunction = ExpectedCb
    /\ (DEBUG_WOLFSSH /\ IsLog /\ ~(op.level < logLevel) /\ ExpectedCb # NULL)
          => (Len(invoked) = 1 /\ invoked[1].sink = ExpectedCb)

C3_Witness ==
    /\ op.name = "SetLoggingCb" /\ op.fn = NULL
    /\ lastCb \in UserCb /\ logFunction = lastCb

\* C4: minLevel is the argument of the most recent setLevel call (DEFAULT
\* if none), and in a debug build a log or logEx call invokes its sink
\* exactly when the sink is non-null and the level is not below it.
C4_SetLevelLastWriterWins ==
    DEBUG_WOLFSSH =>
        /\ logLevel = ExpectedLevel
        /\ IsLogCall => (invoked # <<>> <=> (SinkOf # NULL /\ op.level >= ExpectedLevel))

C4_Witness ==
    /\ DEBUG_WOLFSSH /\ IsLog /\ logFunction # NULL
    /\ lastLevel > WS_LOG_DEFAULT
    /\ op.level >= WS_LOG_DEFAULT /\ op.level < lastLevel
    /\ invoked = <<>>

\* C5: enable() and disable() change only the enabled flag, and in the
\* states before and after them every log and logEx call produces the
\* same sink invocations with the same arguments.
C5_EnabledAdvisory ==
    [][op'.name \in {"Debugging_ON", "Debugging_OFF"} =>
         /\ UNCHANGED <<logLevel, logFunction, logFunctionEx>>
         /\ \A level \in Levels, text \in Rendered :
               /\ LogCalls(level, text)' = LogCalls(level, text)
               /\ \A domain \in Domains :
                     LogExCalls(level, domain, text)' = LogExCalls(level, domain, text)]_vars

C5_Witness ==
    /\ DEBUG_WOLFSSH /\ op.name = "Debugging_OFF" /\ logEnable = 0
    /\ lastCb # NONE /\ lastLevel # -1
    /\ LogCalls(logLevel, <<1>>) # <<>>

\* C6: with both sink references null, a log or logEx call of any level
\* invokes nothing, writes nothing and leaves the configuration unchanged.
C6_AbsentSinkSafety ==
    /\ []((logFunction = NULL /\ logFunctionEx = NULL /\ IsLogCall)
             => (invoked = <<>> /\ out = <<>>))
    /\ [][op'.name \in {"Log", "Log_ex"} => UNCHANGED config]_vars

C6_Witness ==
    /\ DEBUG_WOLFSSH /\ logFunction = NULL /\ logFunctionEx = NULL
    /\ IsLog /\ op.level >= logLevel

\* C7: in a build without DEBUG_WOLFSSH no call invokes a sink or writes
\* output, whatever was configured, and isEnabled() returns false.
C7_DisabledBuildInert ==
    ~DEBUG_WOLFSSH =>
        /\ invoked = <<>> /\ out = <<>>
        /\ logEnable = 0
        /\ op.name = "LogEnabled" => ret = 0

C7_Witness ==
    /\ ~DEBUG_WOLFSSH /\ IsLog /\ logFunction \in UserCb
    /\ op.level >= logLevel /\ lastLevel # -1

\* C8: a message delivered to a sink is terminated inside the buffer of
\* width W and has at most W-1 characters; it is the first W-1 characters
\* of the rendered text when that is longer, and the rendered text itself
\* when that is shorter.
C8_TruncationBound ==
    (IsLogCall /\ invoked # <<>>) =>
        LET buf == invoked[1].buf
            msg == CStr(buf)
            W == WOLFSSH_DEFAULT_LOG_WIDTH
        IN  /\ Len(buf) <= W
            /\ \E i \in 1..Len(buf) : buf[i] = NUL
            /\ Len(msg) <= W - 1
            /\ Len(op.text) > W - 1 => msg = SubSeq(op.text, 1, W - 1)
            /\ Len(op.text) < W - 1 => msg = op.text

C8_Witness ==
    /\ IsLog /\ invoked # <<>>
    /\ WOLFSSH_DEFAULT_LOG_WIDTH > 1
    /\ Len(op.text) > WOLFSSH_DEFAULT_LOG_WIDTH - 1

\* C9: logEx dispatches only to the extended sink last installed by a
\* non-null setSinkEx, with the call's level and domain; log dispatches
\* only to the plain sink; installing one kind of sink leaves the other
\* reference unchanged.
C9_SinkRouting ==
    /\ [](/\ logFunctionEx = ExpectedCbEx
          /\ IsLogEx => \A i \in 1..Len(invoked) :
                /\ invoked[i].sink = ExpectedCbEx
                /\ invoked[i].level = op.level
                /\ invoked[i].domain = op.domain
          /\ IsLog => \A i \in 1..Len(invoked) :
                /\ invoked[i].sink = logFunction
                /\ invoked[i].domain = NoDomain)
    /\ [][/\ op'.name = "SetLoggingCb" => UNCHANGED logFunctionEx
          /\ op'.name = "SetLoggingCbEx" => UNCHANGED logFunction]_vars

C9_Witness ==
    /\ DEBUG_WOLFSSH /\ IsLogEx /\ Len(invoked) = 1
    /\ invoked[1].sink \in UserCbEx /\ logFunction \in UserCb
    /\ op.domain # 0

\* C10: with the selector that omits the built-in sinks both references
\* are null until a non-null sink is installed and every log call before
\* that is dropped; otherwise they start as the built-in sinks; the
\* initial state has enabled = false and minLevel = DEFAULT.
C10_InitialSinkState ==
    /\ op.name = "init" => (logEnable = 0 /\ logLevel = WS_LOG_DEFAULT)
    /\ lastCb = NONE =>
          logFunction = IF WOLFSSH_NO_DEFAULT_LOGGING_CB THEN NULL ELSE DefaultLoggingCb
    /\ lastCbEx = NONE =>
          logFunctionEx = IF WOLFSSH_NO_DEFAULT_LOGGING_CB THEN NULL ELSE DefaultLoggingCbEx
    /\ (WOLFSSH_NO_DEFAULT_LOGGING_CB /\ lastCb = NONE /\ IsLog) => invoked = <<>>
    /\ (WOLFSSH_NO_DEFAULT_LOGGING_CB /\ lastCbEx = NONE /\ IsLogEx) => invoked = <<>>
====
